---- MODULE Spec2Model ----
(***************************************************************************)
(* Model of run2.py: robots on a bordered grid collect keys; doors open    *)
(* once their key is collected.  solve() is a FIFO search over field       *)
(* configurations, branching on each robot's nearest reachable key.        *)
(*                                                                         *)
(* A Point is the tuple <<x, y>> (x = column, y = row, both from 0).       *)
(* data is the list of rows, each a list of one-character strings, so      *)
(* the cell at Point <<x, y>> is data[y + 1][x + 1].                       *)
(***************************************************************************)
EXTENDS Integers, Sequences, FiniteSets, TLC

VARIABLES
    data,      \* the argument of solve: List[List[str]]
    grid,      \* the attributes every Field shares by reference
    states,    \* solve's work queue (a sequence of State records)
    visited,   \* solve's set of FieldState dumps
    result,    \* solve's running minimum (Inf until a terminal node is met)
    state,     \* the State popped last
    todo,      \* robots of state.field the for-loop has not yet enumerated
    pc,        \* position in solve
    retval,    \* <<v>> once solve returned v, <<>> before
    same_inf,  \* how the interpreter answers "result is float('inf')": "unasked",
               \* then "yes" or "no"
    run,       \* 1 in the first call of solve, 2 in a second call
    prev,      \* <<the first call's data and return value>> in a second call
    mem,       \* the set objects behind the Fields: [sets, queue, state], where
               \* sets[i] is what the set object i holds now, and queue and state
               \* give the objects (_robots, _keys) of the queued and the popped Field
    placed,    \* history: every State put on the work queue in this call, in order
    max_capacity,  \* run.py: the first input of check_capacity
    guests,        \* run.py: the list of guests
    answer         \* run.py: <<v>> once check_capacity returned v, <<>> before

vars == <<data, grid, states, visited, result, state, todo, pc, retval, same_inf, run, prev,
          mem, placed, max_capacity, guests, answer>>

\* the variables of run.py, which run2.py never touches
capacity_vars == <<max_capacity, guests, answer>>

(***************************************************************************)
(* Bounds of the input family.                                             *)
(***************************************************************************)
MaxCells == 4    \* interior cells of the grids of Spec, in every shape
MaxRobots == 2
MaxKeys == 2
MaxDoors == 1
MaxWalls == 1
WideCols == 3    \* interior columns of the grids of SpecWide
WideRows == 2    \* interior rows of the grids of SpecWide and SpecTwice
WideRobots == 2
WideKeys == 3
WideDoors == 1
WideWalls == 2
PairCols == 4    \* interior columns of the grids of SpecTwice

(***************************************************************************)
(* Value types.                                                            *)
(***************************************************************************)
Point(x, y) == <<x, y>>

\* a slip: the two ends exchanged
Path_swapped(length, start, end) == [length |-> length, start |-> end, end |-> start]

Path(length, start, end) == [length |-> length, start |-> start, end |-> end]

State(field, steps) == [field |-> field, steps |-> steps]

FieldState(robots, keys) == [robots |-> robots, keys |-> keys]

\* Optional[Path]: None
None == [none |-> TRUE]

\* float("inf"): steps are never negative, so -1 stands for the one value of
\* result that is no int
Inf == -1

\* a placeholder for variables that hold nothing yet
Nothing == [nothing |-> TRUE]

Min(a, b) == IF a = Inf THEN b ELSE IF b = Inf THEN a ELSE IF a <= b THEN a ELSE b

(***************************************************************************)
(* Field.Element and the character tables.                                 *)
(***************************************************************************)
LowerSeq == <<"a", "b", "c", "d", "e", "f", "g", "h", "i", "j", "k", "l", "m",
              "n", "o", "p", "q", "r", "s", "t", "u", "v", "w", "x", "y", "z">>

UpperSeq == <<"A", "B", "C", "D", "E", "F", "G", "H", "I", "J", "K", "L", "M",
              "N", "O", "P", "Q", "R", "S", "T", "U", "V", "W", "X", "Y", "Z">>

KEYS_CHARS == {LowerSeq[i] : i \in 1..Len(LowerSeq)}

DOORS_CHAR == {UpperSeq[i] : i \in 1..Len(UpperSeq)}

\* str.lower() on a door character
lower(ch) == LowerSeq[CHOOSE i \in 1..Len(UpperSeq) : UpperSeq[i] = ch]

from_string(value) ==
    IF value \in KEYS_CHARS THEN "KEY"
    ELSE IF value \in DOORS_CHAR THEN "DOOR"
    ELSE IF value = "." THEN "EMPTY"
    ELSE IF value = "#" THEN "WALL"
    ELSE "ROBOT"

(***************************************************************************)
(* Field.__init__ and Field._initialize_field.                             *)
(***************************************************************************)
Cells(d) == {Point(x, y) : x \in 0..(Len(d[1]) - 1), y \in 0..(Len(d) - 1)}

At(d, p) == d[p[2] + 1][p[1] + 1]

CellsOf(d, kind) == {p \in Cells(d) : from_string(At(d, p)) = kind}

\* row-major scan order of the two nested enumerate loops
ScanBefore(p, q) == p[2] < q[2] \/ (p[2] = q[2] /\ p[1] < q[1])

\* the local dict keys: a later cell with the same letter overwrites an earlier one
KeyOfChar(d, ch) ==
    LET S == {p \in Cells(d) : At(d, p) = ch}
    IN CHOOSE p \in S : \A q \in S : q = p \/ ScanBefore(q, p)

\* keys[element.lower()] raises KeyError for a door whose letter has no key cell
InitRaises(d) ==
    \E p \in CellsOf(d, "DOOR") : \A q \in Cells(d) : At(d, q) # lower(At(d, p))

GridOf(d) ==
    [doors_keys |-> [p \in CellsOf(d, "DOOR") |-> KeyOfChar(d, lower(At(d, p)))],
     doors |-> CellsOf(d, "DOOR"),
     walls |-> CellsOf(d, "WALL"),
     x_max_value |-> Len(d[1]) - 1,
     y_max_value |-> Len(d) - 1]

FieldOf(d) == [robots |-> CellsOf(d, "ROBOT"), keys |-> CellsOf(d, "KEY")]

(***************************************************************************)
(* Field methods.  g is the shared part, f the robots and keys of one      *)
(* Field.                                                                  *)
(***************************************************************************)
\* a slip: the robots counted in place of the keys
keys_count_of_robots(f) == Cardinality(f.robots)

keys_count(f) == Cardinality(f.keys)

copy(f) == [robots |-> f.robots, keys |-> f.keys]

\* a slip: the signature forgets where the robots are
dump_keys(f) == FieldState({}, f.keys)

dump(f) == FieldState(f.robots, f.keys)

\* set.remove raises KeyError when the element is absent
CollectRaises(f, robot_position, key_position) ==
    robot_position \notin f.robots \/ key_position \notin f.keys

\* a slip: the key is taken but the robot is not moved
collect_key_stays(f, robot_position, key_position) ==
    [robots |-> f.robots, keys |-> f.keys \ {key_position}]

\* a slip: the robot is not removed from the cell it leaves
collect_key_adds(f, robot_position, key_position) ==
    [robots |-> f.robots \cup {key_position}, keys |-> f.keys \ {key_position}]

collect_key(f, robot_position, key_position) ==
    [robots |-> (f.robots \ {robot_position}) \cup {key_position},
     keys |-> f.keys \ {key_position}]

\* The same two methods on the set objects.  sets[i] is the content of set
\* object i; ref names the _robots and the _keys object of one Field.
\* a slip: the copy keeps the parent's set objects
copy_shared(sets, ref) == [sets |-> sets, ref |-> ref]

\* set.copy() makes a new set object with the same elements, twice
copy_objects(sets, ref) ==
    [sets |-> sets \o <<sets[ref.robots], sets[ref.keys]>>,
     ref |-> [robots |-> Len(sets) + 1, keys |-> Len(sets) + 2]]

\* remove, add and remove act on the objects of the Field they are called on
collect_key_objects(sets, ref, robot_position, key_position) ==
    [sets EXCEPT ![ref.robots] = (@ \ {robot_position}) \cup {key_position},
                 ![ref.keys] = @ \ {key_position}]

\* a slip: the pairs read as (dy, dx)
directions_yx == << <<1, 0>>, <<0, 1>>, <<-1, 0>>, <<0, -1>> >>

directions == << <<0, 1>>, <<1, 0>>, <<0, -1>>, <<-1, 0>> >>

\* a slip: the border rows and columns admitted
Admissible_with_border(g, f, neighbor) ==
    /\ 0 <= neighbor[1] /\ neighbor[1] <= g.x_max_value
    /\ 0 <= neighbor[2] /\ neighbor[2] <= g.y_max_value
    /\ neighbor \notin f.robots
    /\ neighbor \notin g.walls
    /\ (neighbor \notin g.doors \/ g.doors_keys[neighbor] \notin f.keys)

Admissible(g, f, neighbor) ==
    /\ 0 < neighbor[1] /\ neighbor[1] < g.x_max_value
    /\ 0 < neighbor[2] /\ neighbor[2] < g.y_max_value
    /\ neighbor \notin f.robots
    /\ neighbor \notin g.walls
    /\ (neighbor \notin g.doors \/ g.doors_keys[neighbor] \notin f.keys)

\* the sequence of points the generator yields, in order
get_neighbors(g, f, position) ==
    LET cand == [i \in 1..Len(directions) |->
                    Point(position[1] + directions[i][1], position[2] + directions[i][2])]
        Ok(n) == Admissible(g, f, n)
    IN SelectSeq(cand, Ok)

\* the for-loop over the neighbours of current_position: bfs is <<queue, distance>>
RECURSIVE VisitNeighbors(_, _, _, _)
VisitNeighbors(ns, i, cur, bfs) ==
    IF i > Len(ns) THEN bfs
    ELSE IF ns[i] \in DOMAIN bfs[2]
         THEN VisitNeighbors(ns, i + 1, cur, bfs)
         ELSE VisitNeighbors(ns, i + 1, cur,
                  <<Append(bfs[1], ns[i]), (ns[i] :> (bfs[2][cur] + 1)) @@ bfs[2]>>)

\* the while-loop of get_nearest_key
RECURSIVE NearestLoop(_, _, _, _, _)
NearestLoop(g, f, robot_position, queue, distance) ==
    IF queue = <<>> THEN None
    ELSE LET current_position == Head(queue)
         IN IF current_position \in f.keys
            THEN Path(distance[current_position], robot_position, current_position)
            ELSE LET nxt == VisitNeighbors(get_neighbors(g, f, current_position), 1,
                                           current_position, <<Tail(queue), distance>>)
                 IN NearestLoop(g, f, robot_position, nxt[1], nxt[2])

\* a slip: the robot's own cell counted as one step
get_nearest_key_from_one(g, f, robot_position) ==
    NearestLoop(g, f, robot_position, <<robot_position>>, (robot_position :> 1))

get_nearest_key(g, f, robot_position) ==
    NearestLoop(g, f, robot_position, <<robot_position>>, (robot_position :> 0))

(***************************************************************************)
(* The input family.  An interior is the row-major list of the interior    *)
(* cells.  Key letters are handed out in scan order (the first key met is  *)
(* "a", the next "b", ...): solve depends on the letters only through      *)
(* which door matches which key, so every other lettering is a renaming    *)
(* of one of these.  A door may carry any of the letters the keys may      *)
(* carry, also one without a key cell.  All border cells hold the same     *)
(* character, a wall or an empty cell.                                     *)
(***************************************************************************)
Count(s, S) == Cardinality({i \in 1..Len(s) : s[i] \in S})

Choices(s, maxr, maxk, maxd, maxw) ==
    {"."}
    \cup (IF Count(s, {"#"}) < maxw THEN {"#"} ELSE {})
    \cup (IF Count(s, {"@"}) < maxr THEN {"@"} ELSE {})
    \cup (IF Count(s, KEYS_CHARS) < maxk THEN {LowerSeq[Count(s, KEYS_CHARS) + 1]} ELSE {})
    \cup (IF Count(s, DOORS_CHAR) < maxd THEN {UpperSeq[i] : i \in 1..maxk} ELSE {})

RECURSIVE Interiors(_, _, _, _, _)
Interiors(n, maxr, maxk, maxd, maxw) ==
    IF n = 0 THEN {<<>>}
    ELSE UNION {{Append(s, c) : c \in Choices(s, maxr, maxk, maxd, maxw)} :
                s \in Interiors(n - 1, maxr, maxk, maxd, maxw)}

MkData(interior, cols, rows, border) ==
    LET edge == [i \in 1..(cols + 2) |-> border]
        Row(j) == <<border>> \o SubSeq(interior, (j - 1) * cols + 1, j * cols) \o <<border>>
    IN <<edge>> \o [j \in 1..rows |-> Row(j)] \o <<edge>>

BorderChars == {"#", "."}

\* the grids of cols columns and rows rows inside the border
Grids(cols, rows, maxr, maxk, maxd, maxw) ==
    {MkData(s, cols, rows, b) :
        s \in Interiors(cols * rows, maxr, maxk, maxd, maxw),
        b \in BorderChars}

\* the shapes <<columns, rows>> of the interiors of at most n cells
Shapes(n) == {sh \in (1..n) \X (1..n) : sh[1] * sh[2] <= n}

\* the grids of Spec: every shape of at most MaxCells interior cells
SmallGrids(n) ==
    UNION {Grids(sh[1], sh[2], MaxRobots, MaxKeys, MaxDoors, MaxWalls) : sh \in Shapes(n)}

\* the regression fixture of the specification
Fixture ==
    << <<"#", "#", "#", "#", "#", "#", "#", "#", "#">>,
       <<"#", "b", ".", "A", ".", "@", ".", "a", "#">>,
       <<"#", "#", "#", "#", "#", "#", "#", "#", "#">> >>

\* the grids of SpecTwice: no doors, at least one robot and one key; WideCols
\* columns with up to WideRobots robots and WideWalls walls, or PairCols
\* columns with one robot and no wall
Populated(S) == {t \in S : Count(t, {"@"}) > 0 /\ Count(t, KEYS_CHARS) > 0}

PairGrids(cols, maxr, maxw) ==
    {MkData(s, cols, WideRows, "#") :
        s \in Populated(Interiors(cols * WideRows, maxr, WideKeys, 0, maxw))}

(***************************************************************************)
(* solve.                                                                  *)
(***************************************************************************)
Begin(inputs) ==
    /\ data \in inputs
    /\ grid = Nothing
    /\ states = <<>>
    /\ visited = {}
    /\ result = Inf
    /\ state = Nothing
    /\ todo = {}
    /\ pc = "start"
    /\ retval = <<>>
    /\ same_inf = "unasked"
    /\ run = 1
    /\ prev = <<>>
    /\ mem = Nothing
    /\ placed = <<>>

\* run.py is not run
NoCapacityRun == max_capacity = Nothing /\ guests = Nothing /\ answer = <<>>

Init == Begin(SmallGrids(MaxCells) \cup {Fixture}) /\ NoCapacityRun

\* lines 159-161: the locals, and Field(data), which may raise KeyError
Start ==
    /\ pc = "start"
    /\ IF InitRaises(data)
       THEN /\ pc' = "raised"
            /\ UNCHANGED <<grid, states, visited, result, mem, placed>>
       ELSE /\ grid' = GridOf(data)
            /\ states' = <<State(FieldOf(data), 0)>>
            /\ visited' = {}
            /\ result' = Inf
            /\ mem' = [sets |-> <<FieldOf(data).robots, FieldOf(data).keys>>,
                       queue |-> <<[robots |-> 1, keys |-> 2]>>,
                       state |-> Nothing]
            /\ placed' = <<State(FieldOf(data), 0)>>
            /\ pc' = "loop"
    /\ UNCHANGED <<data, state, todo, retval, same_inf, run, prev, capacity_vars>>

\* lines 162-167: pop a state; a terminal one updates result, any other starts
\* the for-loop over its robots
Dequeue ==
    /\ pc = "loop"
    /\ states # <<>>
    /\ state' = Head(states)
    /\ states' = Tail(states)
    /\ IF keys_count(Head(states).field) = 0
       THEN /\ result' = Min(result, Head(states).steps)
            /\ todo' = {}
            /\ pc' = "loop"
       ELSE /\ result' = result
            /\ todo' = Head(states).field.robots
            /\ pc' = IF Head(states).field.robots = {} THEN "loop" ELSE "for"
    /\ mem' = [mem EXCEPT !.queue = Tail(mem.queue), !.state = Head(mem.queue)]
    /\ UNCHANGED <<data, grid, visited, retval, same_inf, run, prev, placed, capacity_vars>>

\* lines 167-176: one iteration of the for-loop; the set of robots is
\* enumerated in an order the language leaves open
Expand ==
    /\ pc = "for"
    /\ \E robot \in todo :
        LET path == get_nearest_key(grid, state.field, robot)
            new_field == collect_key(copy(state.field), path.start, path.end)
            new_objects == copy_objects(mem.sets, mem.state)
            new_sets == collect_key_objects(new_objects.sets, new_objects.ref,
                                            path.start, path.end)
        IN /\ todo' = todo \ {robot}
           /\ IF path = None
              THEN /\ pc' = IF todo' = {} THEN "loop" ELSE "for"
                   /\ UNCHANGED <<states, visited, mem, placed>>
              ELSE IF CollectRaises(copy(state.field), path.start, path.end)
              THEN /\ pc' = "raised"
                   /\ mem' = [mem EXCEPT !.sets = new_objects.sets]
                   /\ UNCHANGED <<states, visited, placed>>
              ELSE /\ pc' = IF todo' = {} THEN "loop" ELSE "for"
                   /\ IF dump(new_field) \notin visited
                      THEN /\ visited' = visited \cup {dump(new_field)}
                           /\ states' = Append(states,
                                            State(new_field, state.steps + path.length))
                           /\ mem' = [mem EXCEPT !.sets = new_sets,
                                                 !.queue = Append(@, new_objects.ref)]
                           /\ placed' = Append(placed,
                                            State(new_field, state.steps + path.length))
                      ELSE /\ mem' = [mem EXCEPT !.sets = new_sets]
                           /\ UNCHANGED <<states, visited, placed>>
    /\ UNCHANGED <<data, grid, result, state, retval, same_inf, run, prev, capacity_vars>>

\* the locals of solve end with the call (result is kept: it is what line 178
\* reads; the history placed is kept too)
Leave ==
    /\ grid' = Nothing
    /\ visited' = {}
    /\ result' = result
    /\ state' = Nothing
    /\ todo' = {}
    /\ mem' = Nothing
    /\ pc' = "done"

\* line 178 with an int in result: an int is never the object float("inf")
ReturnResult ==
    /\ pc = "loop"
    /\ states = <<>>
    /\ result # Inf
    /\ retval' = <<result>>
    /\ Leave
    /\ UNCHANGED <<data, states, same_inf, run, prev, placed, capacity_vars>>

\* line 178 with result still the float of line 159: "result is not float('inf')"
\* compares the identity of two equal floats, which the language leaves to the
\* implementation (CPython makes a new object, so the test is true and inf is
\* returned; an implementation comparing floats by value returns 0).  The
\* implementation answers the same way each time.
ReturnInf ==
    /\ pc = "loop"
    /\ states = <<>>
    /\ result = Inf
    /\ same_inf \in {"unasked", "no"}
    /\ same_inf' = "no"
    /\ retval' = <<result>>
    /\ Leave
    /\ UNCHANGED <<data, states, run, prev, placed, capacity_vars>>

ReturnZero ==
    /\ pc = "loop"
    /\ states = <<>>
    /\ result = Inf
    /\ same_inf \in {"unasked", "yes"}
    /\ same_inf' = "yes"
    /\ retval' = <<0>>
    /\ Leave
    /\ UNCHANGED <<data, states, run, prev, placed, capacity_vars>>

Next == Start \/ Dequeue \/ Expand \/ ReturnResult \/ ReturnInf \/ ReturnZero

Spec == Init /\ [][Next]_vars

\* the same program on the grids of WideCols columns and WideRows rows
InitWide ==
    /\ Begin(Grids(WideCols, WideRows, WideRobots, WideKeys, WideDoors, WideWalls))
    /\ NoCapacityRun

SpecWide == InitWide /\ [][Next]_vars

(***************************************************************************)
(* Two calls of solve in one process: the second on the same grid, or on   *)
(* the grid with one empty interior cell turned into a wall.               *)
(***************************************************************************)
Interior(d) ==
    {p \in Cells(d) : /\ 0 < p[1] /\ p[1] < Len(d[1]) - 1
                      /\ 0 < p[2] /\ p[2] < Len(d) - 1}

WithWall(d, p) == [d EXCEPT ![p[2] + 1][p[1] + 1] = "#"]

WallVariants(d) == {WithWall(d, p) : p \in {q \in Interior(d) : At(d, q) = "."}}

InitTwice ==
    /\ Begin(PairGrids(WideCols, WideRobots, WideWalls) \cup PairGrids(PairCols, 1, 0))
    /\ NoCapacityRun

Rerun ==
    /\ pc = "done"
    /\ run = 1
    /\ data' \in {data} \cup WallVariants(data)
    /\ prev' = <<[data |-> data, retval |-> retval[1]]>>
    /\ retval' = <<>>
    /\ run' = 2
    /\ pc' = "start"
    /\ UNCHANGED <<grid, states, visited, result, state, todo, same_inf, mem, placed,
                   capacity_vars>>

NextTwice == Next \/ Rerun

SpecTwice == InitTwice /\ [][NextTwice]_vars

(***************************************************************************)
(* The notions the claims are stated in, read off the input grid.          *)
(***************************************************************************)
Range(s) == {s[i] : i \in 1..Len(s)}

Abs(n) == IF n < 0 THEN -n ELSE n

Adjacent(p, q) == Abs(p[1] - q[1]) + Abs(p[2] - q[2]) = 1

Inside(d, q) ==
    /\ 0 < q[1] /\ q[1] < Len(d[1]) - 1
    /\ 0 < q[2] /\ q[2] < Len(d) - 1

Robots0(d) == {p \in Cells(d) : At(d, p) = "@"}

Keys0(d) == {p \in Cells(d) : At(d, p) \in KEYS_CHARS}

Doors0(d) == {p \in Cells(d) : At(d, p) \in DOORS_CHAR}

Start0(d) == [robots |-> Robots0(d), keys |-> Keys0(d)]

\* a door is locked while a key cell with its letter still holds its key
Locked(d, f, q) ==
    At(d, q) \in DOORS_CHAR /\ \E k \in f.keys : At(d, k) = lower(At(d, q))

\* a cell a robot may step on in configuration f
Free(d, f, q) ==
    /\ Inside(d, q)
    /\ At(d, q) # "#"
    /\ q \notin f.robots
    /\ ~Locked(d, f, q)

\* the cells at 0, 1, 2, ... steps from the first frontier
RECURSIVE Levels(_, _, _, _)
Levels(d, f, frontier, seen) ==
    IF frontier = {} THEN <<>>
    ELSE LET nxt == {q \in Interior(d) \ seen :
                        Free(d, f, q) /\ \E p \in frontier : Adjacent(p, q)}
         IN <<frontier>> \o Levels(d, f, nxt, seen \cup nxt)

LevelsFrom(d, f, src) == Levels(d, f, {src}, {src})

\* the number of steps of a shortest permitted route, Inf when there is none
Dist(d, f, src, dst) ==
    LET lv == LevelsFrom(d, f, src)
        at == {n \in 1..Len(lv) : dst \in lv[n]}
    IN IF at = {} THEN Inf ELSE (CHOOSE n \in at : TRUE) - 1

Least(S) == IF S = {} THEN Inf ELSE CHOOSE n \in S : \A m \in S : n <= m

Move(f, r, k) == [robots |-> (f.robots \ {r}) \cup {k}, keys |-> f.keys \ {k}]

\* the least total number of steps of a sequence of moves that collects every
\* key of f, each move taking one robot to any key it can reach
RECURSIVE Best(_, _)
Best(d, f) ==
    IF f.keys = {} THEN 0
    ELSE LET moves == {m \in f.robots \X f.keys : Dist(d, f, m[1], m[2]) # Inf}
             rest == [m \in moves |-> Best(d, Move(f, m[1], m[2]))]
         IN Least({Dist(d, f, m[1], m[2]) + rest[m] : m \in {n \in moves : rest[n] # Inf}})

\* hop counts in the bare maze: walls only
Bare == [robots |-> {}, keys |-> {}]

\* the least sum of hop counts over the orders of visiting the keys of S from cur
RECURSIVE Tour(_, _, _)
Tour(d, cur, S) ==
    IF S = {} THEN 0
    ELSE LET ok == {k \in S : Dist(d, Bare, cur, k) # Inf /\ Tour(d, k, S \ {k}) # Inf}
         IN Least({Dist(d, Bare, cur, k) + Tour(d, k, S \ {k}) : k \in ok})

BruteForce(d) == Tour(d, CHOOSE r \in Robots0(d) : TRUE, Keys0(d))

Returned == pc = "done"

\* a <= b for values that may be Inf
AtMost(a, b) == b = Inf \/ (a # Inf /\ a <= b)

(***************************************************************************)
(* C1  Whenever all keys can be collected, solve returns the least total   *)
(* number of steps of a sequence of moves collecting every key, a move     *)
(* taking one robot by a shortest permitted route to any key it reaches.   *)
(***************************************************************************)
C1_ReturnsMinimum ==
    (Returned /\ Best(data, Start0(data)) # Inf) =>
        retval[1] = Best(data, Start0(data))

(***************************************************************************)
(* C2  With one robot, no doors and at most 4 keys (all of them within     *)
(* reach in the bare maze), solve returns what the brute-force search      *)
(* over the orders of the keys returns.                                    *)
(***************************************************************************)
C2_EqualsBruteForce ==
    (/\ Returned
     /\ Cardinality(Robots0(data)) = 1
     /\ Doors0(data) = {}
     /\ Cardinality(Keys0(data)) <= 4
     /\ BruteForce(data) # Inf) =>
        retval[1] = BruteForce(data)

C4_NoKeysZero == (Returned /\ Keys0(data) = {}) => retval = <<0>>

C4_Witness ==
    /\ Returned
    /\ Keys0(data) = {}
    /\ Cardinality(Robots0(data)) = MaxRobots
    /\ \E p \in Interior(data) : At(data, p) = "#"

(***************************************************************************)
(* C5  On the fixture #b.A.@.a# solve returns 8: door A at column 3 is     *)
(* closed to the robot while key a is there, the robot collects a at       *)
(* distance 2 and then b at distance 6.                                    *)
(***************************************************************************)
C5_Fixture ==
    data = Fixture =>
        /\ Returned => retval = <<8>>
        /\ (pc = "for" /\ state.steps = 0) =>
              Point(3, 1) \notin Range(get_neighbors(grid, state.field, Point(4, 1)))
        /\ \A i \in 1..Len(states) :
              \/ states[i] = State(Start0(Fixture), 0)
              \/ states[i] = State([robots |-> {Point(7, 1)}, keys |-> {Point(1, 1)}], 2)
              \/ states[i] = State([robots |-> {Point(1, 1)}, keys |-> {}], 8)

C5_Witness == data = Fixture /\ Returned /\ retval # <<>>

(***************************************************************************)
(* C6  A grid without a robot is rejected before the search: solve never   *)
(* enters its loop and returns nothing for it.                             *)
(***************************************************************************)
C6_NoRobotsRejected == Robots0(data) = {} => pc \in {"start", "raised"}

(***************************************************************************)
(* C7  Two calls of solve on the same grid return the same value,          *)
(* whatever the order in which the robots of a configuration are           *)
(* enumerated.                                                             *)
(***************************************************************************)
C7_SameGridSameValue ==
    (Returned /\ run = 2 /\ prev[1].data = data) => retval[1] = prev[1].retval

(***************************************************************************)
(* C8  Turning an empty interior cell into a wall, every robot still       *)
(* reaching every key it reached before, never lowers the value solve      *)
(* returns.  Stated for the grids with one robot, where the order of       *)
(* enumeration plays no part; reach is taken both in the bare maze and in  *)
(* the initial configuration.                                              *)
(***************************************************************************)
KeepsReach(d, e) ==
    \A r \in Robots0(d), k \in Keys0(d) :
        /\ Dist(d, Bare, r, k) # Inf => Dist(e, Bare, r, k) # Inf
        /\ Dist(d, Start0(d), r, k) # Inf => Dist(e, Start0(e), r, k) # Inf

\* C8: the second call, on the grid with the wall, returns no less than the first
C8_WallNeverLowers ==
    (/\ Returned
     /\ run = 2
     /\ prev[1].data # data
     /\ Cardinality(Robots0(data)) = 1
     /\ KeepsReach(prev[1].data, data)) =>
        AtMost(prev[1].retval, retval[1])

(***************************************************************************)
(* C9  In every configuration of the search, get_neighbors(p) emits, once  *)
(* each, exactly the cells orthogonally adjacent to p that lie strictly    *)
(* inside the border, are no wall, hold no robot and are no door whose     *)
(* key is still to be collected.                                           *)
(***************************************************************************)
\* a node has just been dequeued: state.field is a configuration of the search
Dequeued ==
    /\ pc \in {"loop", "for"}
    /\ state # Nothing
    /\ (state.field.keys = {} \/ todo = state.field.robots)

C9_Neighbors ==
    Dequeued =>
        LET inner == Interior(data)
        IN \A p \in Cells(data) :
              LET ns == get_neighbors(grid, state.field, p)
              IN /\ Range(ns) = {q \in inner :
                                    Adjacent(p, q) /\ Free(data, state.field, q)}
                 /\ Cardinality(Range(ns)) = Len(ns)

\* an open door is emitted next to a border of empty cells
C9_Witness ==
    /\ pc = "for"
    /\ At(data, Point(0, 0)) = "."
    /\ \E p \in Interior(data) :
          \E q \in Range(get_neighbors(grid, state.field, p)) : q \in Doors0(data)

(***************************************************************************)
(* C10  As claimed: get_neighbors emits in the order right, down, left,    *)
(* up, and among the nearest keys get_nearest_key returns the one found    *)
(* first under that order.                                                 *)
(* As amended: the order is down (row + 1), right (column + 1), up         *)
(* (row - 1), left (column - 1), and among the nearest keys                *)
(* get_nearest_key returns the one found first under that order, which is  *)
(* the end of the shortest route whose list of directions comes first.     *)
(***************************************************************************)
RightDownLeftUp == << <<1, 0>>, <<0, 1>>, <<-1, 0>>, <<0, -1>> >>

DownRightUpLeft == << <<0, 1>>, <<1, 0>>, <<0, -1>>, <<-1, 0>> >>

InOrder(ord, f, p) ==
    LET cand == [i \in 1..Len(ord) |-> Point(p[1] + ord[i][1], p[2] + ord[i][2])]
        Ok(q) == Free(data, f, q)
    IN SelectSeq(cand, Ok)

\* v comes before w in the dictionary order of two lists of equal length
RECURSIVE Before(_, _)
Before(v, w) ==
    /\ v # <<>>
    /\ \/ Head(v) < Head(w)
       \/ Head(v) = Head(w) /\ Before(Tail(v), Tail(w))

\* the shortest routes to the cells of level n, each <<directions, end>>
RECURSIVE Routes(_, _, _, _)
Routes(ord, lv, src, n) ==
    IF n = 1 THEN {<< <<>>, src >>}
    ELSE UNION {{<<Append(w[1], i), Point(w[2][1] + ord[i][1], w[2][2] + ord[i][2])>> :
                    i \in {j \in 1..Len(ord) :
                              Point(w[2][1] + ord[j][1], w[2][2] + ord[j][2]) \in lv[n]}} :
                w \in Routes(ord, lv, src, n - 1)}

\* what get_nearest_key is to return from src under the order ord
FoundFirst(ord, f, src) ==
    LET lv == LevelsFrom(data, f, src)
        with == {n \in 1..Len(lv) : lv[n] \cap f.keys # {}}
    IN IF with = {} THEN None
       ELSE LET n == CHOOSE m \in with : \A k \in with : m <= k
                to == {w \in Routes(ord, lv, src, n) : w[2] \in f.keys}
                first == CHOOSE w \in to : \A v \in to : v = w \/ Before(w[1], v[1])
            IN Path(n - 1, src, first[2])

Ordered(ord) ==
    Dequeued =>
        /\ \A p \in Cells(data) :
              get_neighbors(grid, state.field, p) = InOrder(ord, state.field, p)
        /\ \A r \in state.field.robots :
              get_nearest_key(grid, state.field, r) = FoundFirst(ord, state.field, r)

\* C10 as claimed: the order right, down, left, up
C10_RightDownLeftUp == Ordered(RightDownLeftUp)

\* C10 as amended: the order down, right, up, left
C10_DownRightUpLeft == Ordered(DownRightUpLeft)

\* a robot with two nearest keys, and a cell with the cells below and right of it free
C10_Witness ==
    /\ pc = "for"
    /\ \E r \in state.field.robots :
          LET lv == LevelsFrom(data, state.field, r)
          IN \E n \in 1..Len(lv) :
                /\ Cardinality(lv[n] \cap state.field.keys) > 1
                /\ \A m \in 1..(n - 1) : lv[m] \cap state.field.keys = {}
    /\ \E p \in Cells(data) :
          /\ Free(data, state.field, Point(p[1] + 1, p[2]))
          /\ Free(data, state.field, Point(p[1], p[2] + 1))

(***************************************************************************)
(* C11  For every configuration of the search and every robot r in it,     *)
(* get_nearest_key(r) is None exactly when no remaining key can be reached *)
(* from r by get_neighbors hops; otherwise it is a Path with start r,      *)
(* whose end is a remaining key and whose length is the least number of    *)
(* hops from r to a remaining key (so no remaining key is nearer).         *)
(***************************************************************************)
\* the cells at 0, 1, 2, ... get_neighbors hops from the first frontier
RECURSIVE HopLevels(_, _, _, _)
HopLevels(g, f, frontier, seen) ==
    IF frontier = {} THEN <<>>
    ELSE LET nxt == UNION {Range(get_neighbors(g, f, p)) : p \in frontier} \ seen
         IN <<frontier>> \o HopLevels(g, f, nxt, seen \cup nxt)

C11_NearestKey ==
    Dequeued =>
        \A r \in state.field.robots :
            LET f == state.field
                lv == HopLevels(grid, f, {r}, {r})
                with == {n \in 1..Len(lv) : lv[n] \cap f.keys # {}}
                path == get_nearest_key(grid, f, r)
            IN IF with = {} THEN path = None
               ELSE /\ path # None
                    /\ path.start = r
                    /\ path.end \in f.keys
                    /\ path.length + 1 \in with
                    /\ \A n \in with : path.length + 1 <= n
                    /\ path.end \in lv[path.length + 1]

\* a robot whose nearest key is two or more hops away, another key remaining
C11_Witness ==
    /\ pc = "for"
    /\ Cardinality(state.field.keys) > 1
    /\ \E r \in todo :
          LET path == get_nearest_key(grid, state.field, r)
          IN path # None /\ path.length > 1

(***************************************************************************)
(* C12  Every call of collect_key made by solve meets its precondition:    *)
(* the robot coordinate is in the robot set of the child (the copy of the  *)
(* configuration get_nearest_key was asked on) and the key coordinate in   *)
(* its set of remaining keys; so no exception leaves the search, the only  *)
(* one solve can raise being that of Field(data).                          *)
(***************************************************************************)
C12_CollectNeverFails ==
    /\ pc = "for" =>
          \A robot \in todo :
              LET path == get_nearest_key(grid, state.field, robot)
                  child == copy(state.field)
                  made == copy_objects(mem.sets, mem.state)
              IN path # None =>
                    /\ ~CollectRaises(child, path.start, path.end)
                    /\ path.start \in made.sets[made.ref.robots]
                    /\ path.end \in made.sets[made.ref.keys]
    /\ pc = "raised" => grid = Nothing

\* a call of collect_key is due after an earlier one has been made
C12_Witness ==
    /\ pc = "for"
    /\ Len(placed) > 1
    /\ \E robot \in todo : get_nearest_key(grid, state.field, robot) # None

(***************************************************************************)
(* C13  In every configuration created during the search the number of     *)
(* robot coordinates is the number of robots of the initial grid, and no   *)
(* robot stands on a remaining key.                                        *)
(***************************************************************************)
Sound(f) ==
    /\ Cardinality(f.robots) = Cardinality(Robots0(data))
    /\ f.robots \cap f.keys = {}

C13_RobotsKept ==
    /\ \A i \in 1..Len(placed) : Sound(placed[i].field)
    /\ pc = "for" =>
          \A robot \in todo :
              LET path == get_nearest_key(grid, state.field, robot)
              IN path # None =>
                    Sound(collect_key(copy(state.field), path.start, path.end))

\* the initial node and two generations of children have been created
C13_Witness ==
    /\ Len(placed) > 2
    /\ Cardinality(placed[Len(placed)].field.robots) = MaxRobots
    /\ placed[Len(placed)].field.keys = {}

(***************************************************************************)
(* C14  Every child node enqueued by solve comes from its parent by one    *)
(* collect-key transition: some robot of the parent is replaced by a key   *)
(* coordinate of the parent, that key is the one key removed, and the      *)
(* child's steps are the parent's plus the route length, which is at       *)
(* least 1; so from parent to child the remaining keys strictly shrink     *)
(* and the cumulative distance strictly grows.                             *)
(***************************************************************************)
OneCollect(parent, child) ==
    \E r \in parent.field.robots :
        LET path == get_nearest_key(grid, parent.field, r)
        IN /\ path # None
           /\ path.end \in parent.field.keys
           /\ child.field = Move(parent.field, r, path.end)
           /\ child.field.keys # parent.field.keys
           /\ child.field.keys \subseteq parent.field.keys
           /\ Cardinality(child.field.keys) = Cardinality(parent.field.keys) - 1
           /\ path.length >= 1
           /\ child.steps = parent.steps + path.length
           /\ child.steps > parent.steps

C14_ChildIsOneCollect ==
    [][(pc = "for" /\ states' # states) =>
          /\ states' = Append(states, placed'[Len(placed')])
          /\ OneCollect(state, placed'[Len(placed')])]_vars

\* a grandchild of the initial node is on the queue
C14_Witness ==
    /\ Len(states) > 0
    /\ Len(placed) > 2
    /\ states[Len(states)].steps > 1
    /\ Cardinality(states[Len(states)].field.keys) + 2 <= Cardinality(Keys0(data))

(***************************************************************************)
(* C15  collect_key on a configuration made by copy() leaves the robot     *)
(* set and the remaining-key set of the parent being expanded, and of      *)
(* every node waiting in the queue, as they were: each Field owns its two  *)
(* set objects.  The walls, the doors, the door-to-key mapping and the     *)
(* bounds, shared by all configurations, stay as the grid's construction   *)
(* left them.                                                              *)
(***************************************************************************)
\* the set objects ref names hold what the Field f held when it was made
Holds(ref, f) ==
    /\ mem.sets[ref.robots] = f.robots
    /\ mem.sets[ref.keys] = f.keys

\* the set objects of the Fields of the search: those queued, and the one popped
Owned ==
    LET live == mem.queue \o (IF mem.state = Nothing THEN <<>> ELSE <<mem.state>>)
    IN [i \in 1..Len(live) |-> {live[i].robots, live[i].keys}]

C15_ParentsUntouched ==
    pc \in {"loop", "for"} =>
        /\ grid = GridOf(data)
        /\ Len(mem.queue) = Len(states)
        /\ \A i \in 1..Len(states) : Holds(mem.queue[i], states[i].field)
        /\ state # Nothing => (mem.state # Nothing /\ Holds(mem.state, state.field))
        /\ \A i \in 1..Len(Owned) :
              /\ Cardinality(Owned[i]) = 2
              /\ \A j \in 1..Len(Owned) : i # j => Owned[i] \cap Owned[j] = {}

\* a child of the node being expanded has been made and waits in the queue
C15_Witness ==
    /\ pc \in {"loop", "for"}
    /\ state # Nothing
    /\ state.field.keys # {}
    /\ todo # state.field.robots
    /\ Len(states) > 0
    /\ states[Len(states)].steps > state.steps

(***************************************************************************)
(* C16  During one run of solve no two nodes placed on the work queue,     *)
(* the initial node included, have the same signature (robot set,          *)
(* remaining-key set): the visited set is exactly the signatures of the    *)
(* children placed so far, and a child whose signature is in it is not     *)
(* placed.                                                                 *)
(***************************************************************************)
Signature(f) == [robots |-> f.robots, keys |-> f.keys]

C16_NoTwoAlike ==
    /\ \A i, j \in 1..Len(placed) :
          i # j => Signature(placed[i].field) # Signature(placed[j].field)
    /\ pc \in {"loop", "for"} =>
          visited = {Signature(placed[i].field) : i \in 2..Len(placed)}

\* a child is about to be built whose signature is already in the visited set
C16_Witness ==
    /\ pc = "for"
    /\ \E robot \in todo :
          LET path == get_nearest_key(grid, state.field, robot)
          IN /\ path # None
             /\ Signature(collect_key(copy(state.field), path.start, path.end)) \in visited

(***************************************************************************)
(* C17  First discovery is optimal: whenever a child's signature is        *)
(* already in the visited set, the child's cumulative distance is not      *)
(* smaller than the steps of the node placed with that signature.          *)
(***************************************************************************)
C17_FirstDiscoveryBest ==
    pc = "for" =>
        \A robot \in todo :
            LET path == get_nearest_key(grid, state.field, robot)
                child == collect_key(copy(state.field), path.start, path.end)
            IN (path # None /\ Signature(child) \in visited) =>
                  \A i \in 1..Len(placed) :
                      Signature(placed[i].field) = Signature(child) =>
                          placed[i].steps <= state.steps + path.length

(***************************************************************************)
(* C18  Every terminal configuration (no remaining key) that some          *)
(* sequence of moves reaches from the initial configuration, each move     *)
(* taking one robot to any key it can reach, is also reached by the        *)
(* search: once solve has returned, it is the configuration of a node      *)
(* that was placed on the queue (and so dequeued as a terminal node).      *)
(***************************************************************************)
\* the terminal configurations reachable from f by moves to any reachable key
RECURSIVE Terminals(_, _)
Terminals(d, f) ==
    IF f.keys = {} THEN {f}
    ELSE UNION {Terminals(d, Move(f, m[1], m[2])) :
                   m \in {n \in f.robots \X f.keys : Dist(d, f, n[1], n[2]) # Inf}}

C18_EveryTerminalReached ==
    Returned =>
        \A t \in Terminals(data, Start0(data)) :
            \E i \in 1..Len(placed) : Signature(placed[i].field) = t

(***************************************************************************)
(* C19  For every valid grid solve terminates.  Stated as a variant: a     *)
(* natural number that every step of solve lowers, while a step is         *)
(* possible in every state in which solve has not ended.  The number is    *)
(* made of the signatures not yet visited (finitely many: a set of robot   *)
(* cells and a subset of the keys), the length of the work queue and the   *)
(* robots the for-loop has still to enumerate.  (For a grid with a door    *)
(* that has no key, Field(data) raises and solve ends there.)              *)
(***************************************************************************)
RECURSIVE Pow(_, _)
Pow(b, e) == IF e = 0 THEN 1 ELSE b * Pow(b, e - 1)

\* more than the number of signatures a child can have
Signatures(d) ==
    Pow(2, Cardinality(Keys0(d))) * Pow(Cardinality(Cells(d)), Cardinality(Robots0(d))) + 1

Rank ==
    LET r == Cardinality(Robots0(data))
    IN CASE pc = "start" -> Signatures(data) * (r + 2) + (r + 1) + 1
         [] pc \in {"loop", "for"} ->
                (Signatures(data) - Cardinality(visited)) * (r + 2)
                    + Len(states) * (r + 1) + Cardinality(todo)
         [] OTHER -> 0

Finished == Returned \/ (pc = "raised" /\ InitRaises(data))

\* a step of solve is possible (Start and Expand are given by their guards:
\* every branch of their IFs is a step)
CanStep ==
    \/ pc = "start"
    \/ ENABLED Dequeue
    \/ pc = "for" /\ todo # {}
    \/ ENABLED ReturnResult
    \/ ENABLED ReturnInf
    \/ ENABLED ReturnZero

C19_Terminates ==
    /\ [](Finished \/ CanStep)
    /\ [](Rank >= 0)
    /\ [][Rank' < Rank]_vars

\* solve has returned after a search that went two generations deep
C19_Witness ==
    /\ Returned
    /\ retval # <<>>
    /\ Len(placed) > 2
    /\ \E i \in 1..Len(placed) : placed[i].field.keys = {}

(***************************************************************************)
(* run.py.  A date string is the list of its characters; a date is         *)
(* <<year, month, day>>; a guest maps "check-in" and "check-out" to date   *)
(* strings.                                                                *)
(***************************************************************************)
MaxGuests == 2
MaxCapacity == 2

DigitSeq == <<"0", "1", "2", "3", "4", "5", "6", "7", "8", "9">>

DigitValue(c) == (CHOOSE i \in 1..Len(DigitSeq) : DigitSeq[i] = c) - 1

RECURSIVE ParseInt(_, _)
ParseInt(s, acc) ==
    IF s = <<>> THEN acc ELSE ParseInt(Tail(s), 10 * acc + DigitValue(Head(s)))

\* datetime.strptime(s, "%Y-%m-%d").date(), for a string of that format
strptime(s) ==
    LET dash == {i \in 1..Len(s) : s[i] = "-"}
        first == CHOOSE i \in dash : \A j \in dash : i <= j
        second == CHOOSE i \in dash : \A j \in dash : j <= i
    IN <<ParseInt(SubSeq(s, 1, first - 1), 0),
         ParseInt(SubSeq(s, first + 1, second - 1), 0),
         ParseInt(SubSeq(s, second + 1, Len(s)), 0)>>

\* a < b on dates
DateLess(a, b) ==
    \/ a[1] < b[1]
    \/ a[1] = b[1] /\ a[2] < b[2]
    \/ a[1] = b[1] /\ a[2] = b[2] /\ a[3] < b[3]

\* lines 7-13: the events of the guests whose check-in is before their check-out
RECURSIVE Events(_)
Events(list) ==
    IF list = <<>> THEN <<>>
    ELSE LET guest == Head(list)
             check_in == strptime(guest["check-in"])
             check_out == strptime(guest["check-out"])
         IN (IF DateLess(check_in, check_out)
             THEN << <<check_in, 1>>, <<check_out, -1>> >>
             ELSE <<>>) \o Events(Tail(list))

\* a slip: the events sorted by their date alone
key_date(x) == <<x[1], 0>>

\* the sort key: lambda x: (x[0], x[1])
key(x) == <<x[1], x[2]>>

\* key(a) < key(b), as tuples compare
KeyLess(a, b) ==
    \/ DateLess(key(a)[1], key(b)[1])
    \/ key(a)[1] = key(b)[1] /\ key(a)[2] < key(b)[2]

\* list.sort is stable: an event goes behind those whose key is not greater
RECURSIVE Insert(_, _)
Insert(sorted, e) ==
    IF sorted = <<>> THEN <<e>>
    ELSE IF KeyLess(e, Head(sorted)) THEN <<e>> \o sorted
    ELSE <<Head(sorted)>> \o Insert(Tail(sorted), e)

RECURSIVE sort(_)
sort(events) ==
    IF events = <<>> THEN <<>>
    ELSE Insert(sort(SubSeq(events, 1, Len(events) - 1)), events[Len(events)])

\* lines 15-21: the loop over the sorted events
RECURSIVE Scan(_, _, _)
Scan(events, current_guests, capacity) ==
    IF events = <<>> THEN TRUE
    ELSE IF current_guests + Head(events)[2] > capacity THEN FALSE
    ELSE Scan(Tail(events), current_guests + Head(events)[2], capacity)

check_capacity(capacity, list) == Scan(sort(Events(list)), 0, capacity)

\* The inputs: four date strings, two of them written without leading zeros,
\* each with the number of its day counted from 2023-12-01 (used by the claim
\* only).
DateTable ==
    << <<<<"2", "0", "2", "3", "-", "1", "2", "-", "3", "1">>, 30>>,
       <<<<"2", "0", "2", "4", "-", "1", "-", "9">>, 39>>,
       <<<<"2", "0", "2", "4", "-", "0", "1", "-", "1", "0">>, 40>>,
       <<<<"2", "0", "2", "4", "-", "2", "-", "1">>, 62>> >>

DateStrings == {DateTable[i][1] : i \in 1..Len(DateTable)}

Guests ==
    {[k \in {"check-in", "check-out"} |-> IF k = "check-in" THEN p[1] ELSE p[2]] :
        p \in DateStrings \X DateStrings}

GuestLists(n) == UNION {[1..m -> Guests] : m \in 0..n}

InitCapacity ==
    /\ max_capacity \in (-1)..MaxCapacity
    /\ guests \in GuestLists(MaxGuests)
    /\ answer = <<>>
    /\ data = Nothing
    /\ grid = Nothing
    /\ states = <<>>
    /\ visited = {}
    /\ result = Inf
    /\ state = Nothing
    /\ todo = {}
    /\ pc = "idle"
    /\ retval = <<>>
    /\ same_inf = "unasked"
    /\ run = 1
    /\ prev = <<>>
    /\ mem = Nothing
    /\ placed = <<>>

\* lines 23-36: the call of check_capacity on what was read
Main ==
    /\ answer = <<>>
    /\ answer' = <<check_capacity(max_capacity, guests)>>
    /\ UNCHANGED <<data, grid, states, visited, result, state, todo, pc, retval, same_inf,
                   run, prev, mem, placed, max_capacity, guests>>

NextCapacity == Main

SpecCapacity == InitCapacity /\ [][NextCapacity]_vars

(***************************************************************************)
(* C20  For max_capacity >= 0, check_capacity returns True exactly when    *)
(* on every day d the number of guests with check-in <= d < check-out is   *)
(* at most max_capacity.  (A guest whose check-in is not before the        *)
(* check-out is in on no day; a guest leaving on d is not in on d.)        *)
(***************************************************************************)
\* the number of the day a date string of the table names
DayOf(s) == CHOOSE i \in 1..Len(DateTable) : DateTable[i][1] = s

DayNumber(s) == DateTable[DayOf(s)][2]

\* the days from 2023-12-01 to 2024-02-29
Calendar == 0..90

Occupancy(d) ==
    Cardinality({i \in 1..Len(guests) :
                    /\ DayNumber(guests[i]["check-in"]) <= d
                    /\ d < DayNumber(guests[i]["check-out"])})

C20_CapacityKept ==
    (answer # <<>> /\ max_capacity >= 0) =>
        (answer[1] <=> \A d \in Calendar : Occupancy(d) <= max_capacity)

\* a guest arrives on the day another leaves, and there is one place
C20_Witness ==
    /\ answer = <<TRUE>>
    /\ max_capacity = 1
    /\ \E i, j \in 1..Len(guests) :
          /\ DayNumber(guests[i]["check-in"]) < DayNumber(guests[i]["check-out"])
          /\ DayNumber(guests[i]["check-out"]) = DayNumber(guests[j]["check-in"])
          /\ DayNumber(guests[j]["check-in"]) < DayNumber(guests[j]["check-out"])
====
